---- MODULE Spec2Model ----
(***************************************************************************)
(* Model of androidApp/src/main/cpp/jami_jni_stub.cpp: the JNI stub that    *)
(* stands in for the Jami daemon behind AndroidJamiBridge.                  *)
(*                                                                         *)
(* The only storage of the translation unit is the file-scope flag         *)
(* g_daemonRunning.  Every entry point is modelled by an operator of the   *)
(* same name that computes what one invocation does (the line it logs, the *)
(* value it stores to g_daemonRunning if any, the value it returns and     *)
(* whether it faulted), and by an action that performs the invocation.     *)
(***************************************************************************)
EXTENDS Integers, Sequences, FiniteSets, TLC

VARIABLES
    g_daemonRunning,   \* static bool g_daemonRunning
    call,              \* the invocation that returned last: entry, args, log, ret, outcome
    lastLifecycle,     \* history: the most recent of nativeStart/nativeStop, or "none"
    startSeen,         \* history: nativeStart has been invoked at least once
    initSeen,          \* history: nativeInit has been invoked at least once
    videoDeviceSet,    \* history: nativeSetVideoDevice has been invoked at least once
    shadowRunning,     \* g_daemonRunning of a second, independent run of the library
    shadowCall,        \* the invocation that returned last in the second run
    turn,              \* which of the two runs moves next (two-run specification)
    frame,             \* per thread (threaded specification): idle with the outcome of
                       \* its last invocation, or inside an entry point with the rest of
                       \* the body; writer, rival (history): the invocation is nativeStart
                       \* or nativeStop, and the other of the two overlapped it
    lastStore          \* history: <<entry, rival>> of the invocation that stored to
                       \* g_daemonRunning last, <<>> before the first store

vars == <<g_daemonRunning, call, lastLifecycle, startSeen, initSeen, videoDeviceSet,
          shadowRunning, shadowCall, turn, frame, lastStore>>

(***************************************************************************)
(* Bounds of the model.                                                    *)
(***************************************************************************)
\* jint arguments range over -1 .. MaxInt
MaxInt == 1
\* number of threads of the managed runtime that call into the library
NumThreads == 2

(***************************************************************************)
(* JNI values.  A reference is a record; NULL is the null reference.       *)
(***************************************************************************)
NULL == [kind |-> "null"]
VOID == [kind |-> "void"]

\* const char* values: the null pointer, or a pointer to a NUL-terminated text
nullptr == [ptr |-> "null"]
CString(s) == [ptr |-> "chars", text |-> s]

JString(s) == [kind |-> "String", chars |-> s]
JBoolean(b) == [kind |-> "jboolean", b |-> b]
JInt(n) == [kind |-> "jint", n |-> n]

JNI_TRUE == JBoolean(TRUE)
JNI_FALSE == JBoolean(FALSE)

\* the classes the stub looks up, both present in every Android runtime
LoadedClasses == {"java/lang/String", "java/util/HashMap"}

\* env->FindClass(name)
FindClass(name) ==
    IF name \in LoadedClasses THEN [kind |-> "Class", name |-> name] ELSE NULL

\* variant: the constructor is looked up under a signature HashMap does not have
GetMethodID_WrongSig(clazz, name, sig) == NULL

\* env->GetMethodID(clazz, name, sig)
GetMethodID(clazz, name, sig) ==
    IF clazz # NULL /\ clazz.name = "java/util/HashMap" /\ name = "<init>" /\ sig = "()V"
    THEN [kind |-> "MethodID", class |-> clazz.name, name |-> name, sig |-> sig]
    ELSE NULL

\* env->NewObject(clazz, methodID) with the no-argument HashMap constructor
NewObject(clazz, methodID) ==
    IF clazz = NULL \/ methodID = NULL THEN NULL
    ELSE [kind |-> "HashMap", entries |-> {}]

\* env->NewObjectArray(length, elementClass, initialElement)
NewObjectArray(length, elementClass, initialElement) ==
    IF elementClass = NULL THEN NULL
    ELSE [kind |-> "Array", class |-> elementClass.name,
          elems |-> [i \in 1..length |-> initialElement]]

\* env->SetObjectArrayElement(array, index, value), index counted from 0
SetObjectArrayElement(array, index, value) ==
    IF array = NULL THEN NULL
    ELSE [array EXCEPT !.elems = [@ EXCEPT ![index + 1] = value]]

\* env->NewStringUTF(bytes)
NewStringUTF(bytes) == JString(bytes)

\* variant: no buffer is handed out for a string of length 0
GetStringUTFChars_EmptyIsNull(string) ==
    IF string = NULL \/ string.chars = "" THEN nullptr ELSE CString(string.chars)

\* env->GetStringUTFChars(string, nullptr)
GetStringUTFChars(string) ==
    IF string = NULL THEN nullptr ELSE CString(string.chars)

(***************************************************************************)
(* Logging.  LOGI(fmt, ...) hands a format and its arguments to            *)
(* __android_log_print; a %s argument has to point at a text.               *)
(***************************************************************************)
NoLog == [fmt |-> "", args |-> <<>>]

LOGI(fmt) == [fmt |-> fmt, args |-> <<>>]

LOGI1(fmt, p) == [fmt |-> fmt, args |-> IF p = nullptr THEN <<>> ELSE <<p.text>>]

(***************************************************************************)
(* What one invocation does.  store is <<>> when the body does not assign  *)
(* g_daemonRunning and <<v>> when it assigns v.                            *)
(***************************************************************************)
NoStore == <<>>

Result(log, ret) ==
    [log |-> log, store |-> NoStore, ret |-> ret, outcome |-> "ok"]

Stored(store, running) == IF store = NoStore THEN running ELSE store[1]

(***************************************************************************)
(* Argument values the managed caller can pass.  The Kotlin declarations   *)
(* take non-null references; strings include the empty string.             *)
(***************************************************************************)
JStrings == {JString(""), JString("a")}
JBooleans == {JNI_TRUE, JNI_FALSE}
JInts == {JInt(n) : n \in -1..MaxInt}
JMaps == {[kind |-> "HashMap", entries |-> {}],
          [kind |-> "HashMap", entries |-> {<<"k", "v">>}]}
JArrays == {[kind |-> "Array", class |-> "java/lang/String", elems |-> <<>>],
            [kind |-> "Array", class |-> "java/lang/String", elems |-> <<JString("a")>>]}

(***************************************************************************)
(* Daemon Lifecycle (lines 33-60)                                          *)
(***************************************************************************)
\* variant: initialisation also marks the daemon as running
nativeInit_Starts(dataPath) ==
    [log |-> LOGI1("nativeInit called with path: %s (STUB)", GetStringUTFChars(dataPath)),
     store |-> <<TRUE>>,
     ret |-> VOID,
     outcome |-> "ok"]

\* lines 37-43: path is passed to a %s conversion without a null check
nativeInit(dataPath) ==
    LET path == GetStringUTFChars(dataPath)
    IN  [log |-> LOGI1("nativeInit called with path: %s (STUB)", path),
         store |-> NoStore,
         ret |-> VOID,
         outcome |-> IF path = nullptr THEN "fault" ELSE "ok"]

\* variant: start is refused instead of setting the flag
nativeStart_Rejects ==
    [log |-> LOGI("nativeStart called (STUB)"),
     store |-> NoStore,
     ret |-> VOID,
     outcome |-> "error"]

\* lines 45-49
nativeStart ==
    [log |-> LOGI("nativeStart called (STUB)"),
     store |-> <<TRUE>>,
     ret |-> VOID,
     outcome |-> "ok"]

\* variant: stop logs but leaves the flag as it is
nativeStop_NoStore ==
    [log |-> LOGI("nativeStop called (STUB)"),
     store |-> NoStore,
     ret |-> VOID,
     outcome |-> "ok"]

\* variant: stop assigns the value that start assigns
nativeStop_StoresTrue ==
    [log |-> LOGI("nativeStop called (STUB)"),
     store |-> <<TRUE>>,
     ret |-> VOID,
     outcome |-> "ok"]

\* lines 51-55
nativeStop ==
    [log |-> LOGI("nativeStop called (STUB)"),
     store |-> <<FALSE>>,
     ret |-> VOID,
     outcome |-> "ok"]

\* lines 57-60: running is the value read from g_daemonRunning
nativeIsRunning(running) ==
    Result(NoLog, IF running THEN JNI_TRUE ELSE JNI_FALSE)

(***************************************************************************)
(* Account Management, Contacts, Conversations, Messaging, Calls,          *)
(* Conference, Video, Audio (lines 62-541)                                 *)
(***************************************************************************)
nativeAddAccount(details) ==
    Result(LOGI("nativeAddAccount called (STUB)"), NewStringUTF("stub-account-id"))

nativeRemoveAccount(accountId) ==
    Result(LOGI("nativeRemoveAccount called (STUB)"), VOID)

nativeGetAccountList ==
    LET stringClass == FindClass("java/lang/String")
    IN  Result(LOGI("nativeGetAccountList called (STUB)"), NewObjectArray(0, stringClass, NULL))

nativeGetAccountDetails(accountId) ==
    LET hashMapClass == FindClass("java/util/HashMap")
        hashMapInit == GetMethodID(hashMapClass, "<init>", "()V")
    IN  Result(LOGI("nativeGetAccountDetails called (STUB)"), NewObject(hashMapClass, hashMapInit))

nativeGetVolatileAccountDetails(accountId) ==
    LET hashMapClass == FindClass("java/util/HashMap")
        hashMapInit == GetMethodID(hashMapClass, "<init>", "()V")
    IN  Result(LOGI("nativeGetVolatileAccountDetails called (STUB)"), NewObject(hashMapClass, hashMapInit))

nativeSetAccountDetails(accountId, details) ==
    Result(LOGI("nativeSetAccountDetails called (STUB)"), VOID)

nativeSetAccountActive(accountId, active) ==
    Result(LOGI("nativeSetAccountActive called (STUB)"), VOID)

nativeUpdateProfile(accountId, displayName, avatar, fileType, flag) ==
    Result(LOGI("nativeUpdateProfile called (STUB)"), VOID)

nativeRegisterName(accountId, name, scheme, password) ==
    Result(LOGI("nativeRegisterName called (STUB)"), JNI_FALSE)

nativeLookupName(accountId, nameserver, name) ==
    Result(LOGI("nativeLookupName called (STUB)"), JNI_FALSE)

nativeLookupAddress(accountId, nameserver, address) ==
    Result(LOGI("nativeLookupAddress called (STUB)"), JNI_FALSE)

nativeExportToFile(accountId, destPath, scheme, password) ==
    Result(LOGI("nativeExportToFile called (STUB)"), JNI_FALSE)

nativeGetContacts(accountId) ==
    LET mapClass == FindClass("java/util/HashMap")
    IN  Result(LOGI("nativeGetContacts called (STUB)"), NewObjectArray(0, mapClass, NULL))

nativeAddContact(accountId, uri) ==
    Result(LOGI("nativeAddContact called (STUB)"), VOID)

nativeRemoveContact(accountId, uri, ban) ==
    Result(LOGI("nativeRemoveContact called (STUB)"), VOID)

nativeGetContactDetails(accountId, uri) ==
    LET hashMapClass == FindClass("java/util/HashMap")
        hashMapInit == GetMethodID(hashMapClass, "<init>", "()V")
    IN  Result(LOGI("nativeGetContactDetails called (STUB)"), NewObject(hashMapClass, hashMapInit))

nativeAcceptTrustRequest(accountId, from) ==
    Result(LOGI("nativeAcceptTrustRequest called (STUB)"), VOID)

nativeDiscardTrustRequest(accountId, from) ==
    Result(LOGI("nativeDiscardTrustRequest called (STUB)"), VOID)

nativeGetTrustRequests(accountId) ==
    LET mapClass == FindClass("java/util/HashMap")
    IN  Result(LOGI("nativeGetTrustRequests called (STUB)"), NewObjectArray(0, mapClass, NULL))

nativeGetConversations(accountId) ==
    LET stringClass == FindClass("java/lang/String")
    IN  Result(LOGI("nativeGetConversations called (STUB)"), NewObjectArray(0, stringClass, NULL))

\* variant: the identifier is derived from the account
nativeStartConversation_PerAccount(accountId) ==
    Result(LOGI("nativeStartConversation called (STUB)"), NewStringUTF(accountId.chars))

nativeStartConversation(accountId) ==
    Result(LOGI("nativeStartConversation called (STUB)"), NewStringUTF("stub-conversation-id"))

nativeRemoveConversation(accountId, conversationId) ==
    Result(LOGI("nativeRemoveConversation called (STUB)"), JNI_TRUE)

nativeConversationInfos(accountId, conversationId) ==
    LET hashMapClass == FindClass("java/util/HashMap")
        hashMapInit == GetMethodID(hashMapClass, "<init>", "()V")
    IN  Result(LOGI("nativeConversationInfos called (STUB)"), NewObject(hashMapClass, hashMapInit))

nativeUpdateConversationInfos(accountId, conversationId, infos) ==
    Result(LOGI("nativeUpdateConversationInfos called (STUB)"), VOID)

nativeGetConversationMembers(accountId, conversationId) ==
    LET mapClass == FindClass("java/util/HashMap")
    IN  Result(LOGI("nativeGetConversationMembers called (STUB)"), NewObjectArray(0, mapClass, NULL))

nativeAddConversationMember(accountId, conversationId, contactUri) ==
    Result(LOGI("nativeAddConversationMember called (STUB)"), VOID)

nativeRemoveConversationMember(accountId, conversationId, contactUri) ==
    Result(LOGI("nativeRemoveConversationMember called (STUB)"), VOID)

nativeAcceptConversationRequest(accountId, conversationId) ==
    Result(LOGI("nativeAcceptConversationRequest called (STUB)"), VOID)

nativeDeclineConversationRequest(accountId, conversationId) ==
    Result(LOGI("nativeDeclineConversationRequest called (STUB)"), VOID)

nativeGetConversationRequests(accountId) ==
    LET mapClass == FindClass("java/util/HashMap")
    IN  Result(LOGI("nativeGetConversationRequests called (STUB)"), NewObjectArray(0, mapClass, NULL))

nativeSendMessage(accountId, conversationId, message, replyTo, flag) ==
    Result(LOGI("nativeSendMessage called (STUB)"), VOID)

\* variant: the number of requested messages is reported as loaded
nativeLoadConversation_ReturnsN(accountId, conversationId, fromMessage, n) ==
    Result(LOGI("nativeLoadConversation called (STUB)"), n)

nativeLoadConversation(accountId, conversationId, fromMessage, n) ==
    Result(LOGI("nativeLoadConversation called (STUB)"), JInt(0))

nativeSetIsComposing(accountId, conversationUri, isWriting) ==
    Result(LOGI("nativeSetIsComposing called (STUB)"), VOID)

\* variant: the answer is derived from the status that was passed
nativeSetMessageDisplayed_ByStatus(accountId, conversationUri, messageId, status) ==
    Result(LOGI("nativeSetMessageDisplayed called (STUB)"),
           IF status.n > 0 THEN JNI_TRUE ELSE JNI_FALSE)

nativeSetMessageDisplayed(accountId, conversationUri, messageId, status) ==
    Result(LOGI("nativeSetMessageDisplayed called (STUB)"), JNI_TRUE)

nativePlaceCallWithMedia(accountId, to, mediaList) ==
    Result(LOGI("nativePlaceCallWithMedia called (STUB)"), NewStringUTF("stub-call-id"))

nativeAccept(accountId, callId) ==
    Result(LOGI("nativeAccept called (STUB)"), VOID)

nativeAcceptWithMedia(accountId, callId, mediaList) ==
    Result(LOGI("nativeAcceptWithMedia called (STUB)"), VOID)

nativeRefuse(accountId, callId) ==
    Result(LOGI("nativeRefuse called (STUB)"), VOID)

\* variant: hanging up the call also clears the daemon flag
nativeHangUp_Stops(accountId, callId) ==
    [log |-> LOGI("nativeHangUp called (STUB)"),
     store |-> <<FALSE>>,
     ret |-> VOID,
     outcome |-> "ok"]

nativeHangUp(accountId, callId) ==
    Result(LOGI("nativeHangUp called (STUB)"), VOID)

nativeHold(accountId, callId) ==
    Result(LOGI("nativeHold called (STUB)"), VOID)

nativeUnhold(accountId, callId) ==
    Result(LOGI("nativeUnhold called (STUB)"), VOID)

nativeMuteLocalMedia(accountId, callId, mediaType, mute) ==
    Result(LOGI("nativeMuteLocalMedia called (STUB)"), VOID)

nativeGetCallDetails(accountId, callId) ==
    LET hashMapClass == FindClass("java/util/HashMap")
        hashMapInit == GetMethodID(hashMapClass, "<init>", "()V")
    IN  Result(LOGI("nativeGetCallDetails called (STUB)"), NewObject(hashMapClass, hashMapInit))

nativeGetCallList(accountId) ==
    LET stringClass == FindClass("java/lang/String")
    IN  Result(LOGI("nativeGetCallList called (STUB)"), NewObjectArray(0, stringClass, NULL))

nativeCreateConfFromParticipantList(accountId, participants) ==
    Result(LOGI("nativeCreateConfFromParticipantList called (STUB)"), VOID)

nativeJoinParticipant(accountId, callId1, accountId2, callId2) ==
    Result(LOGI("nativeJoinParticipant called (STUB)"), VOID)

nativeAddParticipant(accountId, callId, account2Id, confId) ==
    Result(LOGI("nativeAddParticipant called (STUB)"), VOID)

nativeHangUpConference(accountId, confId) ==
    Result(LOGI("nativeHangUpConference called (STUB)"), VOID)

nativeGetConferenceDetails(accountId, confId) ==
    LET hashMapClass == FindClass("java/util/HashMap")
        hashMapInit == GetMethodID(hashMapClass, "<init>", "()V")
    IN  Result(LOGI("nativeGetConferenceDetails called (STUB)"), NewObject(hashMapClass, hashMapInit))

nativeGetParticipantList(accountId, confId) ==
    LET stringClass == FindClass("java/lang/String")
    IN  Result(LOGI("nativeGetParticipantList called (STUB)"), NewObjectArray(0, stringClass, NULL))

nativeGetConferenceInfos(accountId, confId) ==
    LET mapClass == FindClass("java/util/HashMap")
    IN  Result(LOGI("nativeGetConferenceInfos called (STUB)"), NewObjectArray(0, mapClass, NULL))

nativeSetConferenceLayout(accountId, confId, layout) ==
    Result(LOGI("nativeSetConferenceLayout called (STUB)"), VOID)

nativeMuteParticipant(accountId, confId, peerId, state) ==
    Result(LOGI("nativeMuteParticipant called (STUB)"), VOID)

nativeHangupParticipant(accountId, confId, accountUri, deviceId) ==
    Result(LOGI("nativeHangupParticipant called (STUB)"), VOID)

\* variant: both elements are stored at index 0
nativeGetVideoDeviceList_SameIndex ==
    LET stringClass == FindClass("java/lang/String")
        result0 == NewObjectArray(2, stringClass, NULL)
        result1 == SetObjectArrayElement(result0, 0, NewStringUTF("camera://0"))
        result2 == SetObjectArrayElement(result1, 0, NewStringUTF("camera://1"))
    IN  Result(LOGI("nativeGetVideoDeviceList called (STUB)"), result2)

nativeGetVideoDeviceList ==
    LET stringClass == FindClass("java/lang/String")
        result0 == NewObjectArray(2, stringClass, NULL)
        result1 == SetObjectArrayElement(result0, 0, NewStringUTF("camera://0"))
        result2 == SetObjectArrayElement(result1, 1, NewStringUTF("camera://1"))
    IN  Result(LOGI("nativeGetVideoDeviceList called (STUB)"), result2)

nativeGetCurrentVideoDevice ==
    Result(LOGI("nativeGetCurrentVideoDevice called (STUB)"), NewStringUTF("camera://0"))

nativeSetVideoDevice(deviceId) ==
    Result(LOGI("nativeSetVideoDevice called (STUB)"), VOID)

nativeStartVideo ==
    Result(LOGI("nativeStartVideo called (STUB)"), VOID)

nativeStopVideo ==
    Result(LOGI("nativeStopVideo called (STUB)"), VOID)

nativeSwitchInput(accountId, callId, resource) ==
    Result(LOGI("nativeSwitchInput called (STUB)"), VOID)

nativeGetAudioOutputDeviceList ==
    LET stringClass == FindClass("java/lang/String")
        result0 == NewObjectArray(2, stringClass, NULL)
        result1 == SetObjectArrayElement(result0, 0, NewStringUTF("Speaker"))
        result2 == SetObjectArrayElement(result1, 1, NewStringUTF("Earpiece"))
    IN  Result(LOGI("nativeGetAudioOutputDeviceList called (STUB)"), result2)

nativeGetAudioInputDeviceList ==
    LET stringClass == FindClass("java/lang/String")
        result0 == NewObjectArray(1, stringClass, NULL)
        result1 == SetObjectArrayElement(result0, 0, NewStringUTF("Microphone"))
    IN  Result(LOGI("nativeGetAudioInputDeviceList called (STUB)"), result1)

nativeSetAudioOutputDevice(index) ==
    Result(LOGI("nativeSetAudioOutputDevice called (STUB)"), VOID)

nativeSetAudioInputDevice(index) ==
    Result(LOGI("nativeSetAudioInputDevice called (STUB)"), VOID)

(***************************************************************************)
(* The exported entry points, their argument tuples, and the dispatch of   *)
(* an invocation by name (the JNI name lookup of the runtime).             *)
(***************************************************************************)
EntryPoints ==
    {"nativeInit",
     "nativeStart",
     "nativeStop",
     "nativeIsRunning",
     "nativeAddAccount",
     "nativeRemoveAccount",
     "nativeGetAccountList",
     "nativeGetAccountDetails",
     "nativeGetVolatileAccountDetails",
     "nativeSetAccountDetails",
     "nativeSetAccountActive",
     "nativeUpdateProfile",
     "nativeRegisterName",
     "nativeLookupName",
     "nativeLookupAddress",
     "nativeExportToFile",
     "nativeGetContacts",
     "nativeAddContact",
     "nativeRemoveContact",
     "nativeGetContactDetails",
     "nativeAcceptTrustRequest",
     "nativeDiscardTrustRequest",
     "nativeGetTrustRequests",
     "nativeGetConversations",
     "nativeStartConversation",
     "nativeRemoveConversation",
     "nativeConversationInfos",
     "nativeUpdateConversationInfos",
     "nativeGetConversationMembers",
     "nativeAddConversationMember",
     "nativeRemoveConversationMember",
     "nativeAcceptConversationRequest",
     "nativeDeclineConversationRequest",
     "nativeGetConversationRequests",
     "nativeSendMessage",
     "nativeLoadConversation",
     "nativeSetIsComposing",
     "nativeSetMessageDisplayed",
     "nativePlaceCallWithMedia",
     "nativeAccept",
     "nativeAcceptWithMedia",
     "nativeRefuse",
     "nativeHangUp",
     "nativeHold",
     "nativeUnhold",
     "nativeMuteLocalMedia",
     "nativeGetCallDetails",
     "nativeGetCallList",
     "nativeCreateConfFromParticipantList",
     "nativeJoinParticipant",
     "nativeAddParticipant",
     "nativeHangUpConference",
     "nativeGetConferenceDetails",
     "nativeGetParticipantList",
     "nativeGetConferenceInfos",
     "nativeSetConferenceLayout",
     "nativeMuteParticipant",
     "nativeHangupParticipant",
     "nativeGetVideoDeviceList",
     "nativeGetCurrentVideoDevice",
     "nativeSetVideoDevice",
     "nativeStartVideo",
     "nativeStopVideo",
     "nativeSwitchInput",
     "nativeGetAudioOutputDeviceList",
     "nativeGetAudioInputDeviceList",
     "nativeSetAudioOutputDevice",
     "nativeSetAudioInputDevice"}

ArgsOf(e) ==
    CASE e = "nativeInit" -> {<<x>> : x \in JStrings}
      [] e = "nativeStart" -> {<<>>}
      [] e = "nativeStop" -> {<<>>}
      [] e = "nativeIsRunning" -> {<<>>}
      [] e = "nativeAddAccount" -> {<<x>> : x \in JMaps}
      [] e = "nativeRemoveAccount" -> {<<x>> : x \in JStrings}
      [] e = "nativeGetAccountList" -> {<<>>}
      [] e = "nativeGetAccountDetails" -> {<<x>> : x \in JStrings}
      [] e = "nativeGetVolatileAccountDetails" -> {<<x>> : x \in JStrings}
      [] e = "nativeSetAccountDetails" -> JStrings \X JMaps
      [] e = "nativeSetAccountActive" -> JStrings \X JBooleans
      [] e = "nativeUpdateProfile" -> JStrings \X JStrings \X JStrings \X JStrings \X JInts
      [] e = "nativeRegisterName" -> JStrings \X JStrings \X JStrings \X JStrings
      [] e = "nativeLookupName" -> JStrings \X JStrings \X JStrings
      [] e = "nativeLookupAddress" -> JStrings \X JStrings \X JStrings
      [] e = "nativeExportToFile" -> JStrings \X JStrings \X JStrings \X JStrings
      [] e = "nativeGetContacts" -> {<<x>> : x \in JStrings}
      [] e = "nativeAddContact" -> JStrings \X JStrings
      [] e = "nativeRemoveContact" -> JStrings \X JStrings \X JBooleans
      [] e = "nativeGetContactDetails" -> JStrings \X JStrings
      [] e = "nativeAcceptTrustRequest" -> JStrings \X JStrings
      [] e = "nativeDiscardTrustRequest" -> JStrings \X JStrings
      [] e = "nativeGetTrustRequests" -> {<<x>> : x \in JStrings}
      [] e = "nativeGetConversations" -> {<<x>> : x \in JStrings}
      [] e = "nativeStartConversation" -> {<<x>> : x \in JStrings}
      [] e = "nativeRemoveConversation" -> JStrings \X JStrings
      [] e = "nativeConversationInfos" -> JStrings \X JStrings
      [] e = "nativeUpdateConversationInfos" -> JStrings \X JStrings \X JMaps
      [] e = "nativeGetConversationMembers" -> JStrings \X JStrings
      [] e = "nativeAddConversationMember" -> JStrings \X JStrings \X JStrings
      [] e = "nativeRemoveConversationMember" -> JStrings \X JStrings \X JStrings
      [] e = "nativeAcceptConversationRequest" -> JStrings \X JStrings
      [] e = "nativeDeclineConversationRequest" -> JStrings \X JStrings
      [] e = "nativeGetConversationRequests" -> {<<x>> : x \in JStrings}
      [] e = "nativeSendMessage" -> JStrings \X JStrings \X JStrings \X JStrings \X JInts
      [] e = "nativeLoadConversation" -> JStrings \X JStrings \X JStrings \X JInts
      [] e = "nativeSetIsComposing" -> JStrings \X JStrings \X JBooleans
      [] e = "nativeSetMessageDisplayed" -> JStrings \X JStrings \X JStrings \X JInts
      [] e = "nativePlaceCallWithMedia" -> JStrings \X JStrings \X JArrays
      [] e = "nativeAccept" -> JStrings \X JStrings
      [] e = "nativeAcceptWithMedia" -> JStrings \X JStrings \X JArrays
      [] e = "nativeRefuse" -> JStrings \X JStrings
      [] e = "nativeHangUp" -> JStrings \X JStrings
      [] e = "nativeHold" -> JStrings \X JStrings
      [] e = "nativeUnhold" -> JStrings \X JStrings
      [] e = "nativeMuteLocalMedia" -> JStrings \X JStrings \X JStrings \X JBooleans
      [] e = "nativeGetCallDetails" -> JStrings \X JStrings
      [] e = "nativeGetCallList" -> {<<x>> : x \in JStrings}
      [] e = "nativeCreateConfFromParticipantList" -> JStrings \X JArrays
      [] e = "nativeJoinParticipant" -> JStrings \X JStrings \X JStrings \X JStrings
      [] e = "nativeAddParticipant" -> JStrings \X JStrings \X JStrings \X JStrings
      [] e = "nativeHangUpConference" -> JStrings \X JStrings
      [] e = "nativeGetConferenceDetails" -> JStrings \X JStrings
      [] e = "nativeGetParticipantList" -> JStrings \X JStrings
      [] e = "nativeGetConferenceInfos" -> JStrings \X JStrings
      [] e = "nativeSetConferenceLayout" -> JStrings \X JStrings \X JInts
      [] e = "nativeMuteParticipant" -> JStrings \X JStrings \X JStrings \X JBooleans
      [] e = "nativeHangupParticipant" -> JStrings \X JStrings \X JStrings \X JStrings
      [] e = "nativeGetVideoDeviceList" -> {<<>>}
      [] e = "nativeGetCurrentVideoDevice" -> {<<>>}
      [] e = "nativeSetVideoDevice" -> {<<x>> : x \in JStrings}
      [] e = "nativeStartVideo" -> {<<>>}
      [] e = "nativeStopVideo" -> {<<>>}
      [] e = "nativeSwitchInput" -> JStrings \X JStrings \X JStrings
      [] e = "nativeGetAudioOutputDeviceList" -> {<<>>}
      [] e = "nativeGetAudioInputDeviceList" -> {<<>>}
      [] e = "nativeSetAudioOutputDevice" -> {<<x>> : x \in JInts}
      [] e = "nativeSetAudioInputDevice" -> {<<x>> : x \in JInts}

Invoke(e, args, running) ==
    CASE e = "nativeInit" -> nativeInit(args[1])
      [] e = "nativeStart" -> nativeStart
      [] e = "nativeStop" -> nativeStop
      [] e = "nativeIsRunning" -> nativeIsRunning(running)
      [] e = "nativeAddAccount" -> nativeAddAccount(args[1])
      [] e = "nativeRemoveAccount" -> nativeRemoveAccount(args[1])
      [] e = "nativeGetAccountList" -> nativeGetAccountList
      [] e = "nativeGetAccountDetails" -> nativeGetAccountDetails(args[1])
      [] e = "nativeGetVolatileAccountDetails" -> nativeGetVolatileAccountDetails(args[1])
      [] e = "nativeSetAccountDetails" -> nativeSetAccountDetails(args[1], args[2])
      [] e = "nativeSetAccountActive" -> nativeSetAccountActive(args[1], args[2])
      [] e = "nativeUpdateProfile" -> nativeUpdateProfile(args[1], args[2], args[3], args[4], args[5])
      [] e = "nativeRegisterName" -> nativeRegisterName(args[1], args[2], args[3], args[4])
      [] e = "nativeLookupName" -> nativeLookupName(args[1], args[2], args[3])
      [] e = "nativeLookupAddress" -> nativeLookupAddress(args[1], args[2], args[3])
      [] e = "nativeExportToFile" -> nativeExportToFile(args[1], args[2], args[3], args[4])
      [] e = "nativeGetContacts" -> nativeGetContacts(args[1])
      [] e = "nativeAddContact" -> nativeAddContact(args[1], args[2])
      [] e = "nativeRemoveContact" -> nativeRemoveContact(args[1], args[2], args[3])
      [] e = "nativeGetContactDetails" -> nativeGetContactDetails(args[1], args[2])
      [] e = "nativeAcceptTrustRequest" -> nativeAcceptTrustRequest(args[1], args[2])
      [] e = "nativeDiscardTrustRequest" -> nativeDiscardTrustRequest(args[1], args[2])
      [] e = "nativeGetTrustRequests" -> nativeGetTrustRequests(args[1])
      [] e = "nativeGetConversations" -> nativeGetConversations(args[1])
      [] e = "nativeStartConversation" -> nativeStartConversation(args[1])
      [] e = "nativeRemoveConversation" -> nativeRemoveConversation(args[1], args[2])
      [] e = "nativeConversationInfos" -> nativeConversationInfos(args[1], args[2])
      [] e = "nativeUpdateConversationInfos" -> nativeUpdateConversationInfos(args[1], args[2], args[3])
      [] e = "nativeGetConversationMembers" -> nativeGetConversationMembers(args[1], args[2])
      [] e = "nativeAddConversationMember" -> nativeAddConversationMember(args[1], args[2], args[3])
      [] e = "nativeRemoveConversationMember" -> nativeRemoveConversationMember(args[1], args[2], args[3])
      [] e = "nativeAcceptConversationRequest" -> nativeAcceptConversationRequest(args[1], args[2])
      [] e = "nativeDeclineConversationRequest" -> nativeDeclineConversationRequest(args[1], args[2])
      [] e = "nativeGetConversationRequests" -> nativeGetConversationRequests(args[1])
      [] e = "nativeSendMessage" -> nativeSendMessage(args[1], args[2], args[3], args[4], args[5])
      [] e = "nativeLoadConversation" -> nativeLoadConversation(args[1], args[2], args[3], args[4])
      [] e = "nativeSetIsComposing" -> nativeSetIsComposing(args[1], args[2], args[3])
      [] e = "nativeSetMessageDisplayed" -> nativeSetMessageDisplayed(args[1], args[2], args[3], args[4])
      [] e = "nativePlaceCallWithMedia" -> nativePlaceCallWithMedia(args[1], args[2], args[3])
      [] e = "nativeAccept" -> nativeAccept(args[1], args[2])
      [] e = "nativeAcceptWithMedia" -> nativeAcceptWithMedia(args[1], args[2], args[3])
      [] e = "nativeRefuse" -> nativeRefuse(args[1], args[2])
      [] e = "nativeHangUp" -> nativeHangUp(args[1], args[2])
      [] e = "nativeHold" -> nativeHold(args[1], args[2])
      [] e = "nativeUnhold" -> nativeUnhold(args[1], args[2])
      [] e = "nativeMuteLocalMedia" -> nativeMuteLocalMedia(args[1], args[2], args[3], args[4])
      [] e = "nativeGetCallDetails" -> nativeGetCallDetails(args[1], args[2])
      [] e = "nativeGetCallList" -> nativeGetCallList(args[1])
      [] e = "nativeCreateConfFromParticipantList" -> nativeCreateConfFromParticipantList(args[1], args[2])
      [] e = "nativeJoinParticipant" -> nativeJoinParticipant(args[1], args[2], args[3], args[4])
      [] e = "nativeAddParticipant" -> nativeAddParticipant(args[1], args[2], args[3], args[4])
      [] e = "nativeHangUpConference" -> nativeHangUpConference(args[1], args[2])
      [] e = "nativeGetConferenceDetails" -> nativeGetConferenceDetails(args[1], args[2])
      [] e = "nativeGetParticipantList" -> nativeGetParticipantList(args[1], args[2])
      [] e = "nativeGetConferenceInfos" -> nativeGetConferenceInfos(args[1], args[2])
      [] e = "nativeSetConferenceLayout" -> nativeSetConferenceLayout(args[1], args[2], args[3])
      [] e = "nativeMuteParticipant" -> nativeMuteParticipant(args[1], args[2], args[3], args[4])
      [] e = "nativeHangupParticipant" -> nativeHangupParticipant(args[1], args[2], args[3], args[4])
      [] e = "nativeGetVideoDeviceList" -> nativeGetVideoDeviceList
      [] e = "nativeGetCurrentVideoDevice" -> nativeGetCurrentVideoDevice
      [] e = "nativeSetVideoDevice" -> nativeSetVideoDevice(args[1])
      [] e = "nativeStartVideo" -> nativeStartVideo
      [] e = "nativeStopVideo" -> nativeStopVideo
      [] e = "nativeSwitchInput" -> nativeSwitchInput(args[1], args[2], args[3])
      [] e = "nativeGetAudioOutputDeviceList" -> nativeGetAudioOutputDeviceList
      [] e = "nativeGetAudioInputDeviceList" -> nativeGetAudioInputDeviceList
      [] e = "nativeSetAudioOutputDevice" -> nativeSetAudioOutputDevice(args[1])
      [] e = "nativeSetAudioInputDevice" -> nativeSetAudioInputDevice(args[1])

LifecycleWriters == {"nativeStart", "nativeStop"}

(***************************************************************************)
(* Sequential specification: one caller, one invocation at a time.         *)
(***************************************************************************)
NoCall == [entry |-> "none", args |-> <<>>, log |-> NoLog, ret |-> VOID, outcome |-> "none"]
Threads == 1..NumThreads
\* a thread outside every entry point, with the outcome of its last invocation
Returned(outcome) == [pc |-> "idle", outcome |-> outcome]
IdleFrame == Returned("none")
NoShadow == [entry |-> "none", ret |-> VOID, outcome |-> "none", sameArgs |-> TRUE]

Init ==
    /\ g_daemonRunning = FALSE
    /\ call = NoCall
    /\ lastLifecycle = "none"
    /\ startSeen = FALSE
    /\ initSeen = FALSE
    /\ videoDeviceSet = FALSE
    /\ shadowRunning = FALSE
    /\ shadowCall = NoShadow
    /\ turn = 1
    /\ frame = [t \in Threads |-> IdleFrame]
    /\ lastStore = <<>>

\* what belongs to the two-run and the threaded specification
elsewhere == <<shadowRunning, shadowCall, turn, frame, lastStore>>

\* the invocation of entry with args runs to completion with effect r
Returns(entry, args, r) ==
    /\ g_daemonRunning' = Stored(r.store, g_daemonRunning)
    /\ call' = [entry |-> entry, args |-> args, log |-> r.log,
                ret |-> r.ret, outcome |-> r.outcome]
    /\ lastLifecycle' = IF entry \in LifecycleWriters THEN entry ELSE lastLifecycle
    /\ startSeen' = (startSeen \/ entry = "nativeStart")
    /\ initSeen' = (initSeen \/ entry = "nativeInit")
    /\ videoDeviceSet' = (videoDeviceSet \/ entry = "nativeSetVideoDevice")

Call_nativeInit ==
    \E dataPath \in JStrings :
        /\ Returns("nativeInit", <<dataPath>>, nativeInit(dataPath))
        /\ UNCHANGED elsewhere

Call_nativeStart ==
    /\ Returns("nativeStart", <<>>, nativeStart)
    /\ UNCHANGED elsewhere

Call_nativeStop ==
    /\ Returns("nativeStop", <<>>, nativeStop)
    /\ UNCHANGED elsewhere

Call_nativeIsRunning ==
    /\ Returns("nativeIsRunning", <<>>, nativeIsRunning(g_daemonRunning))
    /\ UNCHANGED elsewhere

Call_nativeAddAccount ==
    \E details \in JMaps :
        /\ Returns("nativeAddAccount", <<details>>, nativeAddAccount(details))
        /\ UNCHANGED elsewhere

Call_nativeRemoveAccount ==
    \E accountId \in JStrings :
        /\ Returns("nativeRemoveAccount", <<accountId>>, nativeRemoveAccount(accountId))
        /\ UNCHANGED elsewhere

Call_nativeGetAccountList ==
    /\ Returns("nativeGetAccountList", <<>>, nativeGetAccountList)
    /\ UNCHANGED elsewhere

Call_nativeGetAccountDetails ==
    \E accountId \in JStrings :
        /\ Returns("nativeGetAccountDetails", <<accountId>>, nativeGetAccountDetails(accountId))
        /\ UNCHANGED elsewhere

Call_nativeGetVolatileAccountDetails ==
    \E accountId \in JStrings :
        /\ Returns("nativeGetVolatileAccountDetails", <<accountId>>, nativeGetVolatileAccountDetails(accountId))
        /\ UNCHANGED elsewhere

Call_nativeSetAccountDetails ==
    \E accountId \in JStrings, details \in JMaps :
        /\ Returns("nativeSetAccountDetails", <<accountId, details>>, nativeSetAccountDetails(accountId, details))
        /\ UNCHANGED elsewhere

Call_nativeSetAccountActive ==
    \E accountId \in JStrings, active \in JBooleans :
        /\ Returns("nativeSetAccountActive", <<accountId, active>>, nativeSetAccountActive(accountId, active))
        /\ UNCHANGED elsewhere

Call_nativeUpdateProfile ==
    \E accountId \in JStrings, displayName \in JStrings, avatar \in JStrings, fileType \in JStrings, flag \in JInts :
        /\ Returns("nativeUpdateProfile", <<accountId, displayName, avatar, fileType, flag>>, nativeUpdateProfile(accountId, displayName, avatar, fileType, flag))
        /\ UNCHANGED elsewhere

Call_nativeRegisterName ==
    \E accountId \in JStrings, name \in JStrings, scheme \in JStrings, password \in JStrings :
        /\ Returns("nativeRegisterName", <<accountId, name, scheme, password>>, nativeRegisterName(accountId, name, scheme, password))
        /\ UNCHANGED elsewhere

Call_nativeLookupName ==
    \E accountId \in JStrings, nameserver \in JStrings, name \in JStrings :
        /\ Returns("nativeLookupName", <<accountId, nameserver, name>>, nativeLookupName(accountId, nameserver, name))
        /\ UNCHANGED elsewhere

Call_nativeLookupAddress ==
    \E accountId \in JStrings, nameserver \in JStrings, address \in JStrings :
        /\ Returns("nativeLookupAddress", <<accountId, nameserver, address>>, nativeLookupAddress(accountId, nameserver, address))
        /\ UNCHANGED elsewhere

Call_nativeExportToFile ==
    \E accountId \in JStrings, destPath \in JStrings, scheme \in JStrings, password \in JStrings :
        /\ Returns("nativeExportToFile", <<accountId, destPath, scheme, password>>, nativeExportToFile(accountId, destPath, scheme, password))
        /\ UNCHANGED elsewhere

Call_nativeGetContacts ==
    \E accountId \in JStrings :
        /\ Returns("nativeGetContacts", <<accountId>>, nativeGetContacts(accountId))
        /\ UNCHANGED elsewhere

Call_nativeAddContact ==
    \E accountId \in JStrings, uri \in JStrings :
        /\ Returns("nativeAddContact", <<accountId, uri>>, nativeAddContact(accountId, uri))
        /\ UNCHANGED elsewhere

Call_nativeRemoveContact ==
    \E accountId \in JStrings, uri \in JStrings, ban \in JBooleans :
        /\ Returns("nativeRemoveContact", <<accountId, uri, ban>>, nativeRemoveContact(accountId, uri, ban))
        /\ UNCHANGED elsewhere

Call_nativeGetContactDetails ==
    \E accountId \in JStrings, uri \in JStrings :
        /\ Returns("nativeGetContactDetails", <<accountId, uri>>, nativeGetContactDetails(accountId, uri))
        /\ UNCHANGED elsewhere

Call_nativeAcceptTrustRequest ==
    \E accountId \in JStrings, from \in JStrings :
        /\ Returns("nativeAcceptTrustRequest", <<accountId, from>>, nativeAcceptTrustRequest(accountId, from))
        /\ UNCHANGED elsewhere

Call_nativeDiscardTrustRequest ==
    \E accountId \in JStrings, from \in JStrings :
        /\ Returns("nativeDiscardTrustRequest", <<accountId, from>>, nativeDiscardTrustRequest(accountId, from))
        /\ UNCHANGED elsewhere

Call_nativeGetTrustRequests ==
    \E accountId \in JStrings :
        /\ Returns("nativeGetTrustRequests", <<accountId>>, nativeGetTrustRequests(accountId))
        /\ UNCHANGED elsewhere

Call_nativeGetConversations ==
    \E accountId \in JStrings :
        /\ Returns("nativeGetConversations", <<accountId>>, nativeGetConversations(accountId))
        /\ UNCHANGED elsewhere

Call_nativeStartConversation ==
    \E accountId \in JStrings :
        /\ Returns("nativeStartConversation", <<accountId>>, nativeStartConversation(accountId))
        /\ UNCHANGED elsewhere

Call_nativeRemoveConversation ==
    \E accountId \in JStrings, conversationId \in JStrings :
        /\ Returns("nativeRemoveConversation", <<accountId, conversationId>>, nativeRemoveConversation(accountId, conversationId))
        /\ UNCHANGED elsewhere

Call_nativeConversationInfos ==
    \E accountId \in JStrings, conversationId \in JStrings :
        /\ Returns("nativeConversationInfos", <<accountId, conversationId>>, nativeConversationInfos(accountId, conversationId))
        /\ UNCHANGED elsewhere

Call_nativeUpdateConversationInfos ==
    \E accountId \in JStrings, conversationId \in JStrings, infos \in JMaps :
        /\ Returns("nativeUpdateConversationInfos", <<accountId, conversationId, infos>>, nativeUpdateConversationInfos(accountId, conversationId, infos))
        /\ UNCHANGED elsewhere

Call_nativeGetConversationMembers ==
    \E accountId \in JStrings, conversationId \in JStrings :
        /\ Returns("nativeGetConversationMembers", <<accountId, conversationId>>, nativeGetConversationMembers(accountId, conversationId))
        /\ UNCHANGED elsewhere

Call_nativeAddConversationMember ==
    \E accountId \in JStrings, conversationId \in JStrings, contactUri \in JStrings :
        /\ Returns("nativeAddConversationMember", <<accountId, conversationId, contactUri>>, nativeAddConversationMember(accountId, conversationId, contactUri))
        /\ UNCHANGED elsewhere

Call_nativeRemoveConversationMember ==
    \E accountId \in JStrings, conversationId \in JStrings, contactUri \in JStrings :
        /\ Returns("nativeRemoveConversationMember", <<accountId, conversationId, contactUri>>, nativeRemoveConversationMember(accountId, conversationId, contactUri))
        /\ UNCHANGED elsewhere

Call_nativeAcceptConversationRequest ==
    \E accountId \in JStrings, conversationId \in JStrings :
        /\ Returns("nativeAcceptConversationRequest", <<accountId, conversationId>>, nativeAcceptConversationRequest(accountId, conversationId))
        /\ UNCHANGED elsewhere

Call_nativeDeclineConversationRequest ==
    \E accountId \in JStrings, conversationId \in JStrings :
        /\ Returns("nativeDeclineConversationRequest", <<accountId, conversationId>>, nativeDeclineConversationRequest(accountId, conversationId))
        /\ UNCHANGED elsewhere

Call_nativeGetConversationRequests ==
    \E accountId \in JStrings :
        /\ Returns("nativeGetConversationRequests", <<accountId>>, nativeGetConversationRequests(accountId))
        /\ UNCHANGED elsewhere

Call_nativeSendMessage ==
    \E accountId \in JStrings, conversationId \in JStrings, message \in JStrings, replyTo \in JStrings, flag \in JInts :
        /\ Returns("nativeSendMessage", <<accountId, conversationId, message, replyTo, flag>>, nativeSendMessage(accountId, conversationId, message, replyTo, flag))
        /\ UNCHANGED elsewhere

Call_nativeLoadConversation ==
    \E accountId \in JStrings, conversationId \in JStrings, fromMessage \in JStrings, n \in JInts :
        /\ Returns("nativeLoadConversation", <<accountId, conversationId, fromMessage, n>>, nativeLoadConversation(accountId, conversationId, fromMessage, n))
        /\ UNCHANGED elsewhere

Call_nativeSetIsComposing ==
    \E accountId \in JStrings, conversationUri \in JStrings, isWriting \in JBooleans :
        /\ Returns("nativeSetIsComposing", <<accountId, conversationUri, isWriting>>, nativeSetIsComposing(accountId, conversationUri, isWriting))
        /\ UNCHANGED elsewhere

Call_nativeSetMessageDisplayed ==
    \E accountId \in JStrings, conversationUri \in JStrings, messageId \in JStrings, status \in JInts :
        /\ Returns("nativeSetMessageDisplayed", <<accountId, conversationUri, messageId, status>>, nativeSetMessageDisplayed(accountId, conversationUri, messageId, status))
        /\ UNCHANGED elsewhere

Call_nativePlaceCallWithMedia ==
    \E accountId \in JStrings, to \in JStrings, mediaList \in JArrays :
        /\ Returns("nativePlaceCallWithMedia", <<accountId, to, mediaList>>, nativePlaceCallWithMedia(accountId, to, mediaList))
        /\ UNCHANGED elsewhere

Call_nativeAccept ==
    \E accountId \in JStrings, callId \in JStrings :
        /\ Returns("nativeAccept", <<accountId, callId>>, nativeAccept(accountId, callId))
        /\ UNCHANGED elsewhere

Call_nativeAcceptWithMedia ==
    \E accountId \in JStrings, callId \in JStrings, mediaList \in JArrays :
        /\ Returns("nativeAcceptWithMedia", <<accountId, callId, mediaList>>, nativeAcceptWithMedia(accountId, callId, mediaList))
        /\ UNCHANGED elsewhere

Call_nativeRefuse ==
    \E accountId \in JStrings, callId \in JStrings :
        /\ Returns("nativeRefuse", <<accountId, callId>>, nativeRefuse(accountId, callId))
        /\ UNCHANGED elsewhere

Call_nativeHangUp ==
    \E accountId \in JStrings, callId \in JStrings :
        /\ Returns("nativeHangUp", <<accountId, callId>>, nativeHangUp(accountId, callId))
        /\ UNCHANGED elsewhere

Call_nativeHold ==
    \E accountId \in JStrings, callId \in JStrings :
        /\ Returns("nativeHold", <<accountId, callId>>, nativeHold(accountId, callId))
        /\ UNCHANGED elsewhere

Call_nativeUnhold ==
    \E accountId \in JStrings, callId \in JStrings :
        /\ Returns("nativeUnhold", <<accountId, callId>>, nativeUnhold(accountId, callId))
        /\ UNCHANGED elsewhere

Call_nativeMuteLocalMedia ==
    \E accountId \in JStrings, callId \in JStrings, mediaType \in JStrings, mute \in JBooleans :
        /\ Returns("nativeMuteLocalMedia", <<accountId, callId, mediaType, mute>>, nativeMuteLocalMedia(accountId, callId, mediaType, mute))
        /\ UNCHANGED elsewhere

Call_nativeGetCallDetails ==
    \E accountId \in JStrings, callId \in JStrings :
        /\ Returns("nativeGetCallDetails", <<accountId, callId>>, nativeGetCallDetails(accountId, callId))
        /\ UNCHANGED elsewhere

Call_nativeGetCallList ==
    \E accountId \in JStrings :
        /\ Returns("nativeGetCallList", <<accountId>>, nativeGetCallList(accountId))
        /\ UNCHANGED elsewhere

Call_nativeCreateConfFromParticipantList ==
    \E accountId \in JStrings, participants \in JArrays :
        /\ Returns("nativeCreateConfFromParticipantList", <<accountId, participants>>, nativeCreateConfFromParticipantList(accountId, participants))
        /\ UNCHANGED elsewhere

Call_nativeJoinParticipant ==
    \E accountId \in JStrings, callId1 \in JStrings, accountId2 \in JStrings, callId2 \in JStrings :
        /\ Returns("nativeJoinParticipant", <<accountId, callId1, accountId2, callId2>>, nativeJoinParticipant(accountId, callId1, accountId2, callId2))
        /\ UNCHANGED elsewhere

Call_nativeAddParticipant ==
    \E accountId \in JStrings, callId \in JStrings, account2Id \in JStrings, confId \in JStrings :
        /\ Returns("nativeAddParticipant", <<accountId, callId, account2Id, confId>>, nativeAddParticipant(accountId, callId, account2Id, confId))
        /\ UNCHANGED elsewhere

Call_nativeHangUpConference ==
    \E accountId \in JStrings, confId \in JStrings :
        /\ Returns("nativeHangUpConference", <<accountId, confId>>, nativeHangUpConference(accountId, confId))
        /\ UNCHANGED elsewhere

Call_nativeGetConferenceDetails ==
    \E accountId \in JStrings, confId \in JStrings :
        /\ Returns("nativeGetConferenceDetails", <<accountId, confId>>, nativeGetConferenceDetails(accountId, confId))
        /\ UNCHANGED elsewhere

Call_nativeGetParticipantList ==
    \E accountId \in JStrings, confId \in JStrings :
        /\ Returns("nativeGetParticipantList", <<accountId, confId>>, nativeGetParticipantList(accountId, confId))
        /\ UNCHANGED elsewhere

Call_nativeGetConferenceInfos ==
    \E accountId \in JStrings, confId \in JStrings :
        /\ Returns("nativeGetConferenceInfos", <<accountId, confId>>, nativeGetConferenceInfos(accountId, confId))
        /\ UNCHANGED elsewhere

Call_nativeSetConferenceLayout ==
    \E accountId \in JStrings, confId \in JStrings, layout \in JInts :
        /\ Returns("nativeSetConferenceLayout", <<accountId, confId, layout>>, nativeSetConferenceLayout(accountId, confId, layout))
        /\ UNCHANGED elsewhere

Call_nativeMuteParticipant ==
    \E accountId \in JStrings, confId \in JStrings, peerId \in JStrings, state \in JBooleans :
        /\ Returns("nativeMuteParticipant", <<accountId, confId, peerId, state>>, nativeMuteParticipant(accountId, confId, peerId, state))
        /\ UNCHANGED elsewhere

Call_nativeHangupParticipant ==
    \E accountId \in JStrings, confId \in JStrings, accountUri \in JStrings, deviceId \in JStrings :
        /\ Returns("nativeHangupParticipant", <<accountId, confId, accountUri, deviceId>>, nativeHangupParticipant(accountId, confId, accountUri, deviceId))
        /\ UNCHANGED elsewhere

Call_nativeGetVideoDeviceList ==
    /\ Returns("nativeGetVideoDeviceList", <<>>, nativeGetVideoDeviceList)
    /\ UNCHANGED elsewhere

Call_nativeGetCurrentVideoDevice ==
    /\ Returns("nativeGetCurrentVideoDevice", <<>>, nativeGetCurrentVideoDevice)
    /\ UNCHANGED elsewhere

Call_nativeSetVideoDevice ==
    \E deviceId \in JStrings :
        /\ Returns("nativeSetVideoDevice", <<deviceId>>, nativeSetVideoDevice(deviceId))
        /\ UNCHANGED elsewhere

Call_nativeStartVideo ==
    /\ Returns("nativeStartVideo", <<>>, nativeStartVideo)
    /\ UNCHANGED elsewhere

Call_nativeStopVideo ==
    /\ Returns("nativeStopVideo", <<>>, nativeStopVideo)
    /\ UNCHANGED elsewhere

Call_nativeSwitchInput ==
    \E accountId \in JStrings, callId \in JStrings, resource \in JStrings :
        /\ Returns("nativeSwitchInput", <<accountId, callId, resource>>, nativeSwitchInput(accountId, callId, resource))
        /\ UNCHANGED elsewhere

Call_nativeGetAudioOutputDeviceList ==
    /\ Returns("nativeGetAudioOutputDeviceList", <<>>, nativeGetAudioOutputDeviceList)
    /\ UNCHANGED elsewhere

Call_nativeGetAudioInputDeviceList ==
    /\ Returns("nativeGetAudioInputDeviceList", <<>>, nativeGetAudioInputDeviceList)
    /\ UNCHANGED elsewhere

Call_nativeSetAudioOutputDevice ==
    \E index \in JInts :
        /\ Returns("nativeSetAudioOutputDevice", <<index>>, nativeSetAudioOutputDevice(index))
        /\ UNCHANGED elsewhere

Call_nativeSetAudioInputDevice ==
    \E index \in JInts :
        /\ Returns("nativeSetAudioInputDevice", <<index>>, nativeSetAudioInputDevice(index))
        /\ UNCHANGED elsewhere

Next ==
    \/ Call_nativeInit
    \/ Call_nativeStart
    \/ Call_nativeStop
    \/ Call_nativeIsRunning
    \/ Call_nativeAddAccount
    \/ Call_nativeRemoveAccount
    \/ Call_nativeGetAccountList
    \/ Call_nativeGetAccountDetails
    \/ Call_nativeGetVolatileAccountDetails
    \/ Call_nativeSetAccountDetails
    \/ Call_nativeSetAccountActive
    \/ Call_nativeUpdateProfile
    \/ Call_nativeRegisterName
    \/ Call_nativeLookupName
    \/ Call_nativeLookupAddress
    \/ Call_nativeExportToFile
    \/ Call_nativeGetContacts
    \/ Call_nativeAddContact
    \/ Call_nativeRemoveContact
    \/ Call_nativeGetContactDetails
    \/ Call_nativeAcceptTrustRequest
    \/ Call_nativeDiscardTrustRequest
    \/ Call_nativeGetTrustRequests
    \/ Call_nativeGetConversations
    \/ Call_nativeStartConversation
    \/ Call_nativeRemoveConversation
    \/ Call_nativeConversationInfos
    \/ Call_nativeUpdateConversationInfos
    \/ Call_nativeGetConversationMembers
    \/ Call_nativeAddConversationMember
    \/ Call_nativeRemoveConversationMember
    \/ Call_nativeAcceptConversationRequest
    \/ Call_nativeDeclineConversationRequest
    \/ Call_nativeGetConversationRequests
    \/ Call_nativeSendMessage
    \/ Call_nativeLoadConversation
    \/ Call_nativeSetIsComposing
    \/ Call_nativeSetMessageDisplayed
    \/ Call_nativePlaceCallWithMedia
    \/ Call_nativeAccept
    \/ Call_nativeAcceptWithMedia
    \/ Call_nativeRefuse
    \/ Call_nativeHangUp
    \/ Call_nativeHold
    \/ Call_nativeUnhold
    \/ Call_nativeMuteLocalMedia
    \/ Call_nativeGetCallDetails
    \/ Call_nativeGetCallList
    \/ Call_nativeCreateConfFromParticipantList
    \/ Call_nativeJoinParticipant
    \/ Call_nativeAddParticipant
    \/ Call_nativeHangUpConference
    \/ Call_nativeGetConferenceDetails
    \/ Call_nativeGetParticipantList
    \/ Call_nativeGetConferenceInfos
    \/ Call_nativeSetConferenceLayout
    \/ Call_nativeMuteParticipant
    \/ Call_nativeHangupParticipant
    \/ Call_nativeGetVideoDeviceList
    \/ Call_nativeGetCurrentVideoDevice
    \/ Call_nativeSetVideoDevice
    \/ Call_nativeStartVideo
    \/ Call_nativeStopVideo
    \/ Call_nativeSwitchInput
    \/ Call_nativeGetAudioOutputDeviceList
    \/ Call_nativeGetAudioInputDeviceList
    \/ Call_nativeSetAudioOutputDevice
    \/ Call_nativeSetAudioInputDevice

Spec == Init /\ [][Next]_vars

(***************************************************************************)
(* Vocabulary of the properties.                                           *)
(***************************************************************************)
\* what nativeIsRunning would return if it were invoked in the current state
IsRunningNow == nativeIsRunning(g_daemonRunning).ret

\* entry points that return a collection (jobjectArray) or a mapping (HashMap)
ArrayQueries ==
    {"nativeGetAccountList", "nativeGetContacts", "nativeGetTrustRequests",
     "nativeGetConversations", "nativeGetConversationMembers",
     "nativeGetConversationRequests", "nativeGetCallList",
     "nativeGetParticipantList", "nativeGetConferenceInfos",
     "nativeGetVideoDeviceList", "nativeGetAudioOutputDeviceList",
     "nativeGetAudioInputDeviceList"}
MapQueries ==
    {"nativeGetAccountDetails", "nativeGetVolatileAccountDetails",
     "nativeGetContactDetails", "nativeConversationInfos",
     "nativeGetCallDetails", "nativeGetConferenceDetails"}
QueryEntries == ArrayQueries \cup MapQueries
DeviceListQueries ==
    {"nativeGetVideoDeviceList", "nativeGetAudioOutputDeviceList",
     "nativeGetAudioInputDeviceList"}

\* a non-null array none of whose elements is null, or a non-null map
WellFormedCollection(v) ==
    /\ v # NULL
    /\ v.kind \in {"Array", "HashMap"}
    /\ v.kind = "Array" => \A i \in DOMAIN v.elems : v.elems[i] # NULL
IsEmptyCollection(v) ==
    /\ WellFormedCollection(v)
    /\ v.kind = "Array" => v.elems = <<>>
    /\ v.kind = "HashMap" => v.entries = {}
StringList(texts) ==
    [kind |-> "Array", class |-> "java/lang/String",
     elems |-> [i \in DOMAIN texts |-> JString(texts[i])]]

CreateEntries ==
    {"nativeAddAccount", "nativeStartConversation", "nativePlaceCallWithMedia",
     "nativeCreateConfFromParticipantList"}
IsNonEmptyString(v) == v # NULL /\ v.kind = "String" /\ v.chars # ""

\* boolean-returning calls whose result reports whether the operation was done
StatusEntries ==
    {"nativeRegisterName", "nativeLookupName", "nativeLookupAddress",
     "nativeExportToFile", "nativeRemoveConversation", "nativeSetMessageDisplayed"}
RefusingEntries ==
    {"nativeRegisterName", "nativeLookupName", "nativeLookupAddress",
     "nativeExportToFile"}
\* a result by which a call tells its caller that it failed
FailureIndicating(entry, v) ==
    \/ v = NULL
    \/ entry \in StatusEntries /\ v = JNI_FALSE

(***************************************************************************)
(* C1: once nativeStart or nativeStop has been invoked, nativeIsRunning    *)
(* returns true exactly when the most recent of the two was nativeStart,   *)
(* whatever other calls were made in between.                              *)
(***************************************************************************)
C1_IsRunningFollowsLastLifecycleCall ==
    lastLifecycle # "none" =>
        /\ (IsRunningNow = JNI_TRUE) <=> (lastLifecycle = "nativeStart")
        /\ IsRunningNow \in {JNI_TRUE, JNI_FALSE}
        /\ call.entry = "nativeIsRunning" =>
               ((call.ret = JNI_TRUE) <=> (lastLifecycle = "nativeStart"))

\* start, then stop, then a status query that answered false
C1_Witness ==
    /\ startSeen
    /\ initSeen
    /\ lastLifecycle = "nativeStop"
    /\ call.entry = "nativeIsRunning"
    /\ call.ret = JNI_FALSE

(***************************************************************************)
(* C2: nativeIsRunning returns false initially and as long as nativeStart  *)
(* has never been invoked, whatever else has been invoked.                 *)
(***************************************************************************)
C2_NotRunningBeforeFirstStart ==
    ~startSeen =>
        /\ IsRunningNow = JNI_FALSE
        /\ call.entry = "nativeIsRunning" => call.ret = JNI_FALSE

\* init and stop have been invoked, start never, and the status query answered
C2_Witness ==
    /\ ~startSeen
    /\ initSeen
    /\ lastLifecycle = "nativeStop"
    /\ call.entry = "nativeIsRunning"
    /\ call.ret = JNI_FALSE

(***************************************************************************)
(* C3: the lifecycle is a two-state machine without guards: nativeStart    *)
(* and nativeStop can be invoked in every state, also before nativeInit;   *)
(* nativeStart always leaves the flag true and nativeStop leaves it false  *)
(* (so each is idempotent), and neither reports an error.                  *)
(***************************************************************************)
C3_LifecycleStep ==
    /\ call'.entry = "nativeStart" =>
           g_daemonRunning' = TRUE /\ call'.ret = VOID /\ call'.outcome = "ok"
    /\ call'.entry = "nativeStop" =>
           g_daemonRunning' = FALSE /\ call'.ret = VOID /\ call'.outcome = "ok"

C3_TwoStateMachineWithoutGuards ==
    /\ [](g_daemonRunning \in BOOLEAN)
    /\ [](ENABLED Call_nativeStart /\ ENABLED Call_nativeStop)
    /\ [][C3_LifecycleStep]_vars

\* stop was invoked while stopped, with no init and no start before it
C3_Witness ==
    /\ ~initSeen
    /\ ~startSeen
    /\ call.entry = "nativeStop"
    /\ call.outcome = "ok"
    /\ g_daemonRunning = FALSE

(***************************************************************************)
(* C4 as stated: every query returns an empty collection or mapping.       *)
(***************************************************************************)
C4_Original_EveryQueryReturnsEmpty ==
    call.entry \in QueryEntries => IsEmptyCollection(call.ret)

(***************************************************************************)
(* C4 amended: every query returns a well-formed, non-null collection or   *)
(* mapping; it is empty for every query except the three device lists,     *)
(* which are the fixed lists [camera://0, camera://1], [Speaker, Earpiece] *)
(* and [Microphone].                                                       *)
(***************************************************************************)
C4_QueriesReturnWellFormedCollections ==
    call.entry \in QueryEntries =>
        /\ WellFormedCollection(call.ret)
        /\ call.entry \in ArrayQueries => call.ret.kind = "Array"
        /\ call.entry \in MapQueries => call.ret.kind = "HashMap"
        /\ call.entry \notin DeviceListQueries => IsEmptyCollection(call.ret)
        /\ call.entry = "nativeGetVideoDeviceList" =>
               call.ret = StringList(<<"camera://0", "camera://1">>)
        /\ call.entry = "nativeGetAudioOutputDeviceList" =>
               call.ret = StringList(<<"Speaker", "Earpiece">>)
        /\ call.entry = "nativeGetAudioInputDeviceList" =>
               call.ret = StringList(<<"Microphone">>)

\* the video device list was queried while the daemon flag was set, and two
\* devices were returned
C4_Witness ==
    /\ call.entry = "nativeGetVideoDeviceList"
    /\ g_daemonRunning
    /\ call.ret.kind = "Array"
    /\ Len(call.ret.elems) = 2

(***************************************************************************)
(* C5 as stated: each of the four create calls returns a non-empty         *)
(* identifier string.                                                      *)
(***************************************************************************)
C5_Original_EveryCreateReturnsIdentifier ==
    call.entry \in CreateEntries => IsNonEmptyString(call.ret)

(***************************************************************************)
(* C5 amended: add-account, start-conversation and place-call return the   *)
(* non-empty constants "stub-account-id", "stub-conversation-id" and       *)
(* "stub-call-id" on every invocation; create-conference-from-participants *)
(* returns nothing.                                                        *)
(***************************************************************************)
C5_CreateCallsReturnFixedIdentifiers ==
    /\ call.entry = "nativeAddAccount" => call.ret = JString("stub-account-id")
    /\ call.entry = "nativeStartConversation" => call.ret = JString("stub-conversation-id")
    /\ call.entry = "nativePlaceCallWithMedia" => call.ret = JString("stub-call-id")
    /\ call.entry \in CreateEntries \ {"nativeCreateConfFromParticipantList"} =>
           IsNonEmptyString(call.ret)
    /\ call.entry = "nativeCreateConfFromParticipantList" => call.ret = VOID

\* a conversation was started for the empty account id while the flag was set
C5_Witness ==
    /\ call.entry = "nativeStartConversation"
    /\ call.args = <<JString("")>>
    /\ g_daemonRunning
    /\ call.ret = JString("stub-conversation-id")

(***************************************************************************)
(* C6: only nativeStart and nativeStop write the flag: a step of any other *)
(* entry point, nativeInit included, leaves g_daemonRunning and so the     *)
(* answer of nativeIsRunning as they were.                                 *)
(***************************************************************************)
C6_FrameStep ==
    call'.entry \notin LifecycleWriters =>
        /\ g_daemonRunning' = g_daemonRunning
        /\ nativeIsRunning(g_daemonRunning').ret = nativeIsRunning(g_daemonRunning).ret

C6_OnlyStartAndStopWriteTheFlag == [][C6_FrameStep]_vars

\* a call was hung up while running, and the flag is still set
C6_Witness ==
    /\ call.entry = "nativeHangUp"
    /\ lastLifecycle = "nativeStart"
    /\ g_daemonRunning

(***************************************************************************)
(* C8 as stated: no call faults and no call returns a failure-indicating   *)
(* result.                                                                 *)
(***************************************************************************)
C8_Original_NoFaultNoFailureResult ==
    call.entry # "none" =>
        /\ call.outcome = "ok"
        /\ ~FailureIndicating(call.entry, call.ret)

(***************************************************************************)
(* C8 amended: no call faults: every entry point returns normally for      *)
(* every argument, nativeInit with the empty path included, and never      *)
(* returns null; register-name, lookup-name, lookup-address and            *)
(* export-to-file return normally too, but always with false, the          *)
(* failure-indicating value, and no other call returns one.                *)
(***************************************************************************)
C8_NoFaultAndOnlyNameServiceCallsRefuse ==
    call.entry # "none" =>
        /\ call.outcome = "ok"
        /\ call.ret # NULL
        /\ FailureIndicating(call.entry, call.ret) <=> call.entry \in RefusingEntries

\* nativeInit was handed the empty path and returned normally
C8_Witness ==
    /\ call.entry = "nativeInit"
    /\ call.args = <<JString("")>>
    /\ call.log.args = <<"">>
    /\ call.outcome = "ok"

(***************************************************************************)
(* Two-run specification.  The library is loaded twice; the runs share     *)
(* nothing.  The first run invokes any entry point; the second run, after  *)
(* any calls of its own, invokes the same entry point with arguments of    *)
(* its own choice, and the two results are kept side by side.              *)
(***************************************************************************)
\* the first run invokes entry e with args
FirstRunCall ==
    /\ turn = 1
    /\ \E e \in EntryPoints : \E args \in ArgsOf(e) :
           LET r == Invoke(e, args, g_daemonRunning)
           IN  /\ g_daemonRunning' = Stored(r.store, g_daemonRunning)
               /\ call' = [entry |-> e, args |-> args, log |-> r.log,
                           ret |-> r.ret, outcome |-> r.outcome]
    /\ shadowCall' = NoShadow
    /\ turn' = 2
    /\ UNCHANGED <<lastLifecycle, startSeen, initSeen, videoDeviceSet,
                   shadowRunning, frame, lastStore>>

\* the second run makes a call of its own: its history departs from the first run's
SecondRunOtherCall ==
    /\ turn = 2
    /\ \E e \in EntryPoints : \E args \in ArgsOf(e) :
           shadowRunning' = Stored(Invoke(e, args, shadowRunning).store, shadowRunning)
    /\ UNCHANGED <<g_daemonRunning, call, lastLifecycle, startSeen, initSeen, videoDeviceSet,
                   shadowCall, turn, frame, lastStore>>

\* the second run invokes the entry point the first run invoked last
SecondRunSameCall ==
    /\ turn = 2
    /\ \E args \in ArgsOf(call.entry) :
           LET r == Invoke(call.entry, args, shadowRunning)
           IN  /\ shadowRunning' = Stored(r.store, shadowRunning)
               /\ shadowCall' = [entry |-> call.entry, ret |-> r.ret,
                                 outcome |-> r.outcome, sameArgs |-> (args = call.args)]
    /\ turn' = 1
    /\ UNCHANGED <<g_daemonRunning, call, lastLifecycle, startSeen, initSeen, videoDeviceSet,
                   frame, lastStore>>

NextTwoRuns ==
    \/ FirstRunCall
    \/ SecondRunOtherCall
    \/ SecondRunSameCall

TwoRunSpec == Init /\ [][NextTwoRuns]_vars

(***************************************************************************)
(* C7: apart from nativeIsRunning, what an entry point returns depends     *)
(* neither on its arguments nor on the state or the history of the run:    *)
(* in two runs the same entry point returns the same value.                *)
(***************************************************************************)
C7_ReturnIndependentOfArgumentsAndState ==
    (shadowCall.entry = call.entry /\ call.entry \notin {"none", "nativeIsRunning"}) =>
        /\ shadowCall.ret = call.ret
        /\ shadowCall.outcome = call.outcome

\* the same query in two runs, with different arguments and different flags
C7_Witness ==
    /\ shadowCall.entry = "nativeLoadConversation"
    /\ call.entry = "nativeLoadConversation"
    /\ ~shadowCall.sameArgs
    /\ g_daemonRunning # shadowRunning
    /\ call.ret = JInt(0)
    /\ shadowCall.ret = JInt(0)

(***************************************************************************)
(* Threaded specification.  The managed runtime may invoke entry points    *)
(* from several threads at once; the stub takes no lock.  An invocation    *)
(* is two steps of its thread.  Entering, it receives its arguments and    *)
(* logs.  Finishing, it runs the rest of the body and returns: what the    *)
(* rest does (the store, the returned value, the outcome) is determined by *)
(* the entry point, the arguments and the value of g_daemonRunning it      *)
(* finds, and is kept in the frame as a function of that value.            *)
(* g_daemonRunning is a plain bool: a store is one byte write, so racing   *)
(* stores take effect in some order.                                       *)
(***************************************************************************)
\* the rest of the body of entry point e invoked with args, after its LOGI
Rest(e, args) ==
    [running \in BOOLEAN |->
        LET r == Invoke(e, args, running)
        IN  [store |-> r.store, ret |-> r.ret, outcome |-> r.outcome]]

\* history: which of nativeStart/nativeStop an invocation is, "none" for the others
Writer(e) == IF e \in LifecycleWriters THEN e ELSE "none"

\* every invocation the runtime can make, as the frame it leaves on entry
Invocations ==
    UNION {{[pc |-> "entered", writer |-> Writer(e), rival |-> FALSE,
             rest |-> Rest(e, args)] : args \in ArgsOf(e)} : e \in EntryPoints}

Rivals(w1, w2) == {w1, w2} = LifecycleWriters

InFlightWriter(t) == IF frame[t].pc = "entered" THEN frame[t].writer ELSE "none"

Enter(t) ==
    /\ frame[t].pc = "idle"
    /\ \E inv \in Invocations :
           frame' = [u \in Threads |->
                        IF u = t
                        THEN [inv EXCEPT !.rival =
                                 \E v \in Threads : Rivals(inv.writer, InFlightWriter(v))]
                        ELSE IF frame[u].pc = "entered"
                        THEN [frame[u] EXCEPT !.rival = @ \/ Rivals(inv.writer, frame[u].writer)]
                        ELSE frame[u]]
    /\ UNCHANGED <<g_daemonRunning, call, lastLifecycle, startSeen, initSeen, videoDeviceSet,
                   shadowRunning, shadowCall, turn, lastStore>>

\* variant: placing a call waits until the daemon has been started
Finish_WaitsForDaemon(t) ==
    /\ frame[t].pc = "entered"
    /\ frame[t].rest[g_daemonRunning].ret = JString("stub-call-id") => g_daemonRunning
    /\ LET r == frame[t].rest[g_daemonRunning]
       IN  /\ g_daemonRunning' = Stored(r.store, g_daemonRunning)
           /\ frame' = [frame EXCEPT ![t] = Returned(r.outcome)]
    /\ lastStore' = IF frame[t].writer # "none"
                    THEN <<frame[t].writer, frame[t].rival>> ELSE lastStore
    /\ UNCHANGED <<call, lastLifecycle, startSeen, initSeen, videoDeviceSet,
                   shadowRunning, shadowCall, turn>>

Finish(t) ==
    /\ frame[t].pc = "entered"
    /\ LET r == frame[t].rest[g_daemonRunning]
       IN  /\ g_daemonRunning' = Stored(r.store, g_daemonRunning)
           /\ frame' = [frame EXCEPT ![t] = Returned(r.outcome)]
    /\ lastStore' = IF frame[t].writer # "none"
                    THEN <<frame[t].writer, frame[t].rival>> ELSE lastStore
    /\ UNCHANGED <<call, lastLifecycle, startSeen, initSeen, videoDeviceSet,
                   shadowRunning, shadowCall, turn>>

NextThreads ==
    \E t \in Threads :
        \/ Enter(t)
        \/ Finish(t)

ThreadSpec == Init /\ [][NextThreads]_vars

\* a thread inside an entry point keeps being scheduled
FairThreadSpec == ThreadSpec /\ \A t \in Threads : WF_vars(Finish(t))

AllReturned == \A t \in Threads : frame[t].pc = "idle"
StartRacesStop ==
    \E t1, t2 \in Threads :
        InFlightWriter(t1) = "nativeStart" /\ InFlightWriter(t2) = "nativeStop"

(***************************************************************************)
(* C9: with nativeStart and nativeStop in flight on different threads the  *)
(* stores can take effect in either order, so either final value can       *)
(* result; the flag is always a boolean, and it holds the value of the     *)
(* store that was executed last (true for nativeStart, false for           *)
(* nativeStop), in particular once all calls have returned.                *)
(***************************************************************************)
C9_FlagHoldsLastStore ==
    /\ g_daemonRunning \in BOOLEAN
    /\ lastStore = <<>> => g_daemonRunning = FALSE
    /\ lastStore # <<>> => g_daemonRunning = (lastStore[1] = "nativeStart")
    /\ \A t \in Threads :
           (StartRacesStop /\ frame[t].pc = "entered") => ENABLED Finish(t)

\* nativeStart and nativeStop overlapped, both have returned, and the store of
\* nativeStart was the later one
C9_Witness ==
    /\ AllReturned
    /\ lastStore = <<"nativeStart", TRUE>>
    /\ g_daemonRunning = TRUE

(***************************************************************************)
(* C10: no entry point waits for anything: a thread that is idle can enter *)
(* any entry point, a thread inside one can always finish it, whatever the *)
(* flag and the other threads are doing, and so it eventually returns;     *)
(* once every call has returned nothing is left to run.                    *)
(***************************************************************************)
C10_EveryCallReturns ==
    /\ [](\A t \in Threads : frame[t].pc = "idle" => ENABLED Enter(t))
    /\ [](\A t \in Threads : frame[t].pc = "entered" => ENABLED Finish(t))
    /\ [](AllReturned => ~ENABLED (\E t \in Threads : Finish(t)))
    /\ [](\A t \in Threads : frame[t].pc = "idle" => frame[t].outcome \in {"none", "ok"})
    /\ \A t \in Threads : (frame[t].pc = "entered") ~> (frame[t].pc = "idle")

\* a call is being placed while another thread is inside nativeStop and the
\* daemon flag is clear
C10_Witness ==
    /\ ~g_daemonRunning
    /\ \E t1, t2 \in Threads :
           /\ t1 # t2
           /\ frame[t1].pc = "entered"
           /\ frame[t1].rest[g_daemonRunning].ret = JString("stub-call-id")
           /\ InFlightWriter(t2) = "nativeStop"

(***************************************************************************)
(* C11: every scalar-returning call that is not a create call returns one  *)
(* constant in every state and for every argument: register-name,          *)
(* lookup-name, lookup-address and export-to-file return false,            *)
(* remove-conversation and set-message-displayed return true, and          *)
(* load-conversation returns 0 whatever count n was requested.             *)
(***************************************************************************)
C11_ScalarCallsReturnFixedConstants ==
    /\ call.entry \in RefusingEntries => call.ret = JNI_FALSE
    /\ call.entry \in {"nativeRemoveConversation", "nativeSetMessageDisplayed"} =>
           call.ret = JNI_TRUE
    /\ call.entry = "nativeLoadConversation" => call.ret = JInt(0)
    /\ call.entry \in StatusEntries \cup {"nativeLoadConversation"} =>
           call.outcome = "ok"

\* one message was requested from a conversation while the daemon flag was set,
\* and 0 was returned
C11_Witness ==
    /\ call.entry = "nativeLoadConversation"
    /\ call.args[4] = JInt(1)
    /\ g_daemonRunning
    /\ call.ret = JInt(0)

(***************************************************************************)
(* C12: device selection is never observed by a query: whatever            *)
(* set-video-device, switch-input, start-video, stop-video,                *)
(* set-audio-output-device and set-audio-input-device calls were made,     *)
(* with whatever arguments, get-current-video-device returns "camera://0", *)
(* the video device list is ["camera://0", "camera://1"], the audio output *)
(* list is ["Speaker", "Earpiece"] and the audio input list is             *)
(* ["Microphone"]; so the current video device is in the video list.       *)
(***************************************************************************)
DeviceSelectors ==
    {"nativeSetVideoDevice", "nativeSwitchInput", "nativeStartVideo",
     "nativeStopVideo", "nativeSetAudioOutputDevice", "nativeSetAudioInputDevice"}

\* v is an element of the array list
IsElementOf(v, list) ==
    /\ list # NULL
    /\ list.kind = "Array"
    /\ \E i \in DOMAIN list.elems : list.elems[i] = v

C12_DeviceQueriesIgnoreSelection ==
    /\ call.entry \in DeviceSelectors => call.ret = VOID /\ call.outcome = "ok"
    /\ call.entry = "nativeGetCurrentVideoDevice" =>
           /\ call.ret = JString("camera://0")
           /\ IsElementOf(call.ret, nativeGetVideoDeviceList.ret)
    /\ call.entry = "nativeGetVideoDeviceList" =>
           /\ call.ret = StringList(<<"camera://0", "camera://1">>)
           /\ IsElementOf(nativeGetCurrentVideoDevice.ret, call.ret)
    /\ call.entry = "nativeGetAudioOutputDeviceList" =>
           call.ret = StringList(<<"Speaker", "Earpiece">>)
    /\ call.entry = "nativeGetAudioInputDeviceList" =>
           call.ret = StringList(<<"Microphone">>)

\* a video device was selected earlier, and the current device is queried
C12_Witness ==
    /\ videoDeviceSet
    /\ call.entry = "nativeGetCurrentVideoDevice"
    /\ call.ret = JString("camera://0")

====
